---- MODULE Spec2Model ----
(***************************************************************************)
(* Submission ingestion pipeline of smart-client: main() of src/main.py    *)
(* (version 0.2.4), run one or more times against the same destination     *)
(* folder.  Where src/smart_client/main.py (version 0.2.2) differs, the     *)
(* comment of the definition says so.                                      *)
(*                                                                         *)
(* The environment (HTTP status of every request, success or failure of    *)
(* every local write, the command-line arguments of every run) is chosen   *)
(* nondeterministically.  Strings the code takes apart (uuid, url) are     *)
(* sequences of one-character strings.                                     *)
(***************************************************************************)
EXTENDS Integers, Sequences, FiniteSets, TLC

VARIABLES
    doc,        \* the submission document the server holds (its data.linked.files
                \* and the form fields of its data)
    environ,    \* os.environ["ARCHIVE_PREFIX"], as load_configuration() set it
    disk,       \* the UUID subdirectory: file name -> content
    run,        \* number of runs started so far
    prevRun,    \* whether the previous run completed, and its format
    disk0,      \* the UUID subdirectory as it was when the current run started
    pc,         \* position of the current run inside main()
    args,       \* command-line arguments of the current run (uuid,
                \* destination, format flag)
    hash,       \* main(): hash, set from the --md5/--sha256 flag ("": not yet)
    subStatus,  \* status code of this run's submission GET (0: not issued)
    fileinfo,   \* main(): fileinfo, the list of file descriptors
    idx,        \* download_files(): the descriptor the loop is at
    out,        \* download_files(): out, the four buckets of file names
    steps,      \* one record per loop iteration of download_files() so far
    hashed,     \* descriptors update_fileinfo() has called compute_hash for
    info,       \* main(): submission_info, the projected submission
    failure     \* why the run terminated ("" while running or completed)

vars == <<doc, environ, disk, run, prevRun, disk0, pc, args, hash, subStatus,
          fileinfo, idx, out, steps, hashed, info, failure>>

-----------------------------------------------------------------------------
(* Bounds of the model *)

\* longest data.linked.files map of a submission
MaxFiles == 2

\* number of runs of main() against the same destination
MaxRuns == 2

\* most form fields of a submission's data that a projection is applied to
MaxFields == 2

-----------------------------------------------------------------------------
(* Strings *)

HexDigits == {"0", "1", "2", "6", "a", "d", "e", "E"}

RECURSIVE replace_hyphen(_)
\* str.replace('-', '') as uuid.UUID applies it to its argument
replace_hyphen(s) ==
    IF s = <<>> THEN <<>>
    ELSE IF Head(s) = "-" THEN replace_hyphen(Tail(s))
         ELSE <<Head(s)>> \o replace_hyphen(Tail(s))

\* uuid.UUID(args.uuid) returns (TRUE) or raises ValueError (FALSE):
\* 32 characters must remain without the hyphens, all hexadecimal digits
UUID_parses(s) ==
    LET hex == replace_hyphen(s)
    IN  /\ Len(hex) = 32
        /\ \A i \in 1..Len(hex) : hex[i] \in HexDigits

RECURSIVE PathName(_)
\* Path(url).name: the part of the url after its last "/"
PathName(u) ==
    IF \A i \in 1..Len(u) : u[i] # "/" THEN u
    ELSE PathName(Tail(u))

\* the character a %XX escape stands for (the escapes the modelled urls use)
HexChar(h1, h2) ==
    CASE <<h1, h2>> = <<"6", "1">> -> "a"
      [] <<h1, h2>> = <<"6", "2">> -> "b"
      [] <<h1, h2>> = <<"2", "E">> -> "."
      [] <<h1, h2>> = <<"2", "e">> -> "."
      [] OTHER -> "?"

RECURSIVE unquote(_)
\* urllib.parse.unquote: every %XX with two hex digits is decoded, anything
\* else is kept as it is
unquote(s) ==
    IF s = <<>> THEN <<>>
    ELSE IF /\ Head(s) = "%"
            /\ Len(s) >= 3
            /\ s[2] \in HexDigits
            /\ s[3] \in HexDigits
         THEN <<HexChar(s[2], s[3])>> \o unquote(SubSeq(s, 4, Len(s)))
         ELSE <<Head(s)>> \o unquote(Tail(s))

\* str.lower() of one character
lower_char(c) ==
    IF c = "A" THEN "a" ELSE IF c = "B" THEN "b" ELSE IF c = "C" THEN "c"
    ELSE IF c = "N" THEN "n" ELSE IF c = "X" THEN "x" ELSE c

\* str.lower()
lower(s) == [i \in 1..Len(s) |-> lower_char(s[i])]

\* k.startswith(prefix)
startswith(k, prefix) ==
    Len(prefix) <= Len(k) /\ SubSeq(k, 1, Len(prefix)) = prefix

\* the slice k[n:]
slice_from(k, n) == IF n >= Len(k) THEN <<>> ELSE SubSeq(k, n + 1, Len(k))

-----------------------------------------------------------------------------
(* Inputs *)

\* a well-formed uuid: 8-4-4-4-12 hexadecimal digits
ValidUuid == [i \in 1..36 |-> IF i \in {9, 14, 19, 24} THEN "-" ELSE "d"]
\* one digit short
ShortUuid == SubSeq(ValidUuid, 1, 35)
\* right length, one character that is no hexadecimal digit
NonHexUuid == [ValidUuid EXCEPT ![1] = "g"]

UuidInputs == {ValidUuid, ShortUuid, NonHexUuid}

\* the inputs uuid.UUID(args.uuid) does not raise on
ParsedUuids == {u \in UuidInputs : UUID_parses(u)}

\* what args.destination names on the local machine
DestInputs == {"directory", "regular_file", "nothing"}

Formats == {"json", "xml", "arkibas"}
Algorithms == {"md5", "sha256"}

\* the arguments of a run: every format with a valid uuid and destination,
\* and each invalid uuid or destination once (the format decides nothing
\* when the run ends at the validation)
ArgInputs ==
    [uuid : {ValidUuid}, destination : {"directory"}, format : Formats]
      \cup [uuid : UuidInputs \ {ValidUuid}, destination : {"directory"},
            format : {"json"}]
      \cup [uuid : {ValidUuid}, destination : DestInputs \ {"directory"},
            format : {"json"}]

\* attachment urls a submission can link to; the first two derive the same
\* filename
Urls == { <<"/", "f", "/", "a">>,
          <<"/", "g", "/", "%", "6", "1">>,
          <<"/", "f", "/", "b">> }

\* the url of an attachment whose name is the name of a metadata artifact
\* (indhold.csv, with its dot escaped)
ArtifactNamedUrl ==
    <<"/", "f", "/", "i", "n", "d", "h", "o", "l", "d", "%", "2", "E",
      "c", "s", "v">>

\* status codes the server answers a GET with
StatusCodes == {200, 302, 401, 403, 404, 503}

RECURSIVE SeqsUpTo(_, _)
SeqsUpTo(S, n) ==
    IF n = 0 THEN {<<>>}
    ELSE LET shorter == SeqsUpTo(S, n - 1)
         IN  shorter \cup {Append(s, x) : s \in {t \in shorter : Len(t) = n - 1}, x \in S}

\* names of form fields: under a three-character prefix (xx_navn), under a
\* four-character prefix in lower and in upper case (abc_navn, ABC_navn),
\* of the allow-list (navn), and none of these (other)
FieldNames ==
    { <<"x", "x", "_", "n", "a", "v", "n">>,
      <<"a", "b", "c", "_", "n", "a", "v", "n">>,
      <<"A", "B", "C", "_", "n", "a", "v", "n">>,
      <<"n", "a", "v", "n">>,
      <<"o", "t", "h", "e", "r">> }

\* values of form fields; "" is falsy
FieldValues == {"", "v", "w"}

\* values of archive_prefix in config.json: empty, xx_, abc_, ABC_
PrefixInputs ==
    { <<>>, <<"x", "x", "_">>, <<"a", "b", "c", "_">>, <<"A", "B", "C", "_">> }

\* the form fields of submission["data"], in the order of the dict: no name
\* twice
DataInputs ==
    {t \in SeqsUpTo([k : FieldNames, v : FieldValues], MaxFields) :
        \A i, j \in 1..Len(t) : t[i].k = t[j].k => i = j}

\* the form fields and the prefix of the runs against one destination
FormData == << [k |-> <<"a", "b", "c", "_", "n", "a", "v", "n">>, v |-> "v"] >>
ArchivePrefix == <<"a", "b", "c", "_">>

\* a submission document: data.linked.files absent, or an ordered map of
\* attachments (each given by its url; every file id has a url of its own);
\* one document has the attachment named like an artifact
Documents ==
    {[present |-> FALSE, urls |-> <<>>, data |-> FormData]}
        \cup {[present |-> TRUE, urls |-> s, data |-> FormData] :
                 s \in {t \in SeqsUpTo(Urls, MaxFiles) :
                          \A i, j \in 1..Len(t) : t[i] = t[j] => i = j}}
        \cup {[present |-> TRUE, urls |-> <<ArtifactNamedUrl>>,
               data |-> FormData]}

-----------------------------------------------------------------------------
(* The destination folder *)

journal_csv == <<"j", "o", "u", "r", "n", "a", "l", ".", "c", "s", "v">>
indhold_csv == <<"i", "n", "d", "h", "o", "l", "d", ".", "c", "s", "v">>
submission_json ==
    <<"s", "u", "b", "m", "i", "s", "s", "i", "o", "n", ".", "j", "s", "o", "n">>
submission_xml ==
    <<"s", "u", "b", "m", "i", "s", "s", "i", "o", "n", ".", "x", "m", "l">>

ArtifactNames == {journal_csv, indhold_csv, submission_json, submission_xml}
AttachmentNames == {unquote(PathName(u)) : u \in Urls \cup {ArtifactNamedUrl}}
FileNames == AttachmentNames \cup ArtifactNames

NoFile == [kind |-> "none"]

\* Path.exists()
exists(d, name) == d[name] # NoFile

\* the bytes the server sends for a url with a status code; what reaches the
\* file is all of them (complete) or a part
Body(u, status, complete) ==
    [kind |-> "body", url |-> u, status |-> status, complete |-> complete]

\* json.dump / dicttoxml of the projected submission into submission.<format>
Meta(format, submission, complete) ==
    [kind |-> "meta", format |-> format, submission |-> submission,
     complete |-> complete]

\* journal.csv: the header and one row of donor fields
Journal(submission, complete) ==
    [kind |-> "journal", rows |-> 1, complete |-> complete]

\* indhold.csv: the header and one row per file of submission["files"], each
\* with the number of files (Mængde) and the file's name (Filnavn)
Indhold(submission, complete) ==
    [kind |-> "indhold",
     rows |-> [i \in 1..Len(submission.files) |->
                  [Maengde |-> Len(submission.files),
                   Filnavn |-> submission.files[i].filename]],
     complete |-> complete]

-----------------------------------------------------------------------------
(* Initial state: nothing has run, the UUID subdirectory does not exist yet *)

NoArgs == [uuid |-> <<>>, destination |-> "nothing", format |-> "json"]

EmptyBuckets == [errors |-> <<>>, downloaded |-> <<>>,
                 existing |-> <<>>, missing |-> <<>>]

NoRun == [completed |-> FALSE, all200 |-> FALSE, format |-> ""]

\* submission_info is not assigned yet
NoInfo == [kind |-> "none"]

Init ==
    /\ doc \in Documents
    /\ environ = ArchivePrefix
    /\ info = NoInfo
    /\ disk = [n \in FileNames |-> NoFile]
    /\ run = 0
    /\ prevRun = NoRun
    /\ disk0 = disk
    /\ pc = "idle"
    /\ args = NoArgs
    /\ hash = ""
    /\ subStatus = 0
    /\ fileinfo = <<>>
    /\ idx = 0
    /\ out = EmptyBuckets
    /\ steps = <<>>
    /\ hashed = {}
    /\ failure = ""

Terminated == pc \in {"done", "failed", "crashed"}

\* sys.exit(message): the run ends as failed
Exit(why) ==
    /\ pc' = "failed"
    /\ failure' = why

\* an exception nobody catches: the run ends with a traceback
Crash(why) ==
    /\ pc' = "crashed"
    /\ failure' = why

-----------------------------------------------------------------------------
(* main(): one action per stage *)

\* Path(args.destination).is_dir()
is_dir(destination) == destination = "directory"

\* validate without the test of the destination
validate_uuid_only(a) ==
    IF a.uuid \notin ParsedUuids THEN "uuid" ELSE ""

\* main(): "Validate arguments": the check that ends the run ("": none)
validate(a) ==
    IF a.uuid \notin ParsedUuids THEN "uuid"
    ELSE IF ~is_dir(a.destination) THEN "destination"
    ELSE ""

\* main() up to its first request: setup_parser() returns the arguments the
\* user gives (one of --json/--xml/--arkibas is required), "Validate
\* arguments", then out_dir.mkdir(parents=True, exist_ok=True)
StartRun ==
    /\ pc = "idle" \/ Terminated
    /\ run < MaxRuns
    /\ run' = run + 1
    /\ prevRun' = IF pc # "done" THEN NoRun
                  ELSE [completed |-> TRUE,
                        all200 |-> \A k \in 1..Len(steps) :
                                      steps[k].status \in {0, 200},
                        format |-> args.format]
    /\ disk0' = disk
    /\ hash' = ""
    /\ subStatus' = 0
    /\ fileinfo' = <<>>
    /\ idx' = 0
    /\ out' = EmptyBuckets
    /\ steps' = <<>>
    /\ hashed' = {}
    /\ info' = NoInfo
    /\ \E a \in ArgInputs :
          /\ args' = a
          /\ IF validate(a) # "" THEN Exit(validate(a))
             ELSE \E made \in BOOLEAN :
                     IF made THEN pc' = "fetch" /\ failure' = ""
                     ELSE Exit("mkdir")
    /\ UNCHANGED <<doc, environ, disk>>

\* get_submission_info without its last branch (status_code != 200)
get_submission_info_two_branches(status) ==
    IF status = 404 THEN "not_found"
    ELSE IF status \in {401, 403} THEN "access_denied"
    ELSE ""

\* get_submission_info(): the exception it raises for a status code ("" for
\* none: the document is returned)
get_submission_info(status) ==
    IF status = 404 THEN "not_found"
    ELSE IF status \in {401, 403} THEN "access_denied"
    ELSE IF status # 200 THEN "remote_error"
    ELSE ""

\* main(): "Fetch submission info"
GetSubmission ==
    /\ pc = "fetch"
    /\ \E status \in StatusCodes :
          /\ subStatus' = status
          /\ IF get_submission_info(status) # ""
             THEN Exit(get_submission_info(status))
             ELSE pc' = "extract" /\ failure' = failure
    /\ UNCHANGED <<doc, environ, disk, run, prevRun, disk0, args, hash,
                   fileinfo, idx, out, steps, hashed, info>>

\* extract_filelist() raises ValueError: when submission["data"]["linked"]
\* ["files"] raises, that is when the files map is absent (0.2.2 tested
\* "if not files_dict", which an empty map fails too; 0.2.4 has the test
\* commented out)
extract_fails(d) == ~d.present

\* extract_filelist with the descriptors in the reverse of the map's order
extract_filelist_reversed(d) ==
    [i \in 1..Len(d.urls) |->
        [url |-> d.urls[Len(d.urls) + 1 - i],
         filename |-> unquote(PathName(d.urls[Len(d.urls) + 1 - i]))]]

\* extract_filelist(): one descriptor per entry of the map, in its order
extract_filelist(d) ==
    [i \in 1..Len(d.urls) |->
        [url |-> d.urls[i], filename |-> unquote(PathName(d.urls[i]))]]

\* main(): "extract info on uploaded files"
Extract ==
    /\ pc = "extract"
    /\ IF extract_fails(doc)
       THEN Exit("no_files") /\ UNCHANGED <<fileinfo, idx>>
       ELSE /\ fileinfo' = extract_filelist(doc)
            /\ idx' = 1
            /\ pc' = IF Len(doc.urls) = 0 THEN "update" ELSE "download"
            /\ failure' = failure
    /\ UNCHANGED <<doc, environ, disk, run, prevRun, disk0, args, hash,
                   subStatus, out, steps, hashed, info>>

-----------------------------------------------------------------------------
(* download_files(): one action per iteration of its loop *)

\* classify with the server branch taken for status 500 alone
classify_only_500(status) ==
    IF status = 404 THEN "missing"
    ELSE IF status \in {401, 403} THEN "denied"
    ELSE IF status = 500 THEN "server"
    ELSE "write"

\* classify with the access-denied branch taken for status 401 alone
classify_only_401(status) ==
    IF status = 404 THEN "missing"
    ELSE IF status = 401 THEN "denied"
    ELSE IF status \div 100 = 5 THEN "server"
    ELSE "write"

\* the branch download_files() takes on the status code of an attachment
\* GET: the body of any status it has no branch for is written (0.2.2 had a
\* last branch raising on every other status but 200)
classify(status) ==
    IF status = 404 THEN "missing"
    ELSE IF status \in {401, 403} THEN "denied"
    ELSE IF status \div 100 = 5 THEN "server"
    ELSE "write"

\* how open(filepath, "wb") / write / close end: all three succeed, open
\* raises (no file), write raises (a part is on disk), close raises (the
\* statements of the with-body have all run, a part is on disk)
WriteResults == {"ok", "open_fail", "write_fail", "close_fail"}

\* the file a write leaves behind
written(d, name, u, status, w) ==
    IF w = "open_fail" THEN d
    ELSE [d EXCEPT ![name] = Body(u, status, w = "ok")]

\* the buckets the try/except of download_files() appends the filename to
write_tags(w) ==
    IF w = "ok" THEN {"downloaded"}
    ELSE IF w = "close_fail" THEN {"downloaded", "errors"}
    ELSE {"errors"}

\* out[tag].append(filename) for each of the tags
append_to(o, tags, name) ==
    [t \in DOMAIN o |-> IF t \in tags THEN Append(o[t], name) ELSE o[t]]

\* the loop goes on to the next descriptor, or download_files() returns
Advance ==
    /\ idx' = idx + 1
    /\ pc' = IF idx = Len(fileinfo) THEN "update" ELSE "download"
    /\ failure' = failure

\* skip_existing without the test: every descriptor is requested
skip_never(d, name) == FALSE

\* skip_existing that takes a file a failed write left for absent
skip_if_complete(d, name) == exists(d, name) /\ d[name].complete

\* filepath.exists(): the descriptor is skipped without a request
skip_existing(d, name) == exists(d, name)

\* the record of one iteration: the url of its descriptor, whether the file
\* was there when the iteration began, the status code of its GET (0: none
\* issued), how the write ended ("none": nothing was written), the buckets
\* appended to
Step(url, was_there, status, w, tags) ==
    [url |-> url, present |-> was_there, status |-> status, write |-> w,
     tags |-> tags]

DownloadStep ==
    /\ pc = "download"
    /\ idx <= Len(fileinfo)
    /\ LET filename == fileinfo[idx].filename
           url == fileinfo[idx].url
           was_there == exists(disk, filename)
       IN  IF skip_existing(disk, filename)
           THEN /\ out' = append_to(out, {"existing"}, filename)
                /\ steps' = Append(steps,
                                   Step(url, was_there, 0, "none",
                                        {"existing"}))
                /\ Advance
                /\ disk' = disk
           ELSE \E status \in StatusCodes :
                   LET branch == classify(status)
                   IN  IF branch = "missing"
                       THEN /\ out' = append_to(out, {"missing"}, filename)
                            /\ steps' = Append(steps,
                                   Step(url, was_there, status, "none",
                                        {"missing"}))
                            /\ Advance
                            /\ disk' = disk
                       ELSE IF branch \in {"denied", "server"}
                       THEN /\ steps' = Append(steps,
                                   Step(url, was_there, status, "none", {}))
                            /\ Exit(branch)
                            /\ UNCHANGED <<out, idx, disk>>
                       ELSE \E w \in WriteResults :
                               /\ disk' = written(disk, filename, url, status, w)
                               /\ out' = append_to(out, write_tags(w), filename)
                               /\ steps' = Append(steps,
                                      Step(url, was_there, status, w,
                                           write_tags(w)))
                               /\ Advance
    /\ UNCHANGED <<doc, environ, run, prevRun, disk0, args, hash, subStatus,
                   fileinfo, hashed, info>>

-----------------------------------------------------------------------------
(* update_fileinfo() *)

\* f"{algoritm}:{compute_hash(path)}": the digest stands for the content it
\* was computed from; md5 gives 32 hex characters, anything else sha256's 64
checksum(algoritm, content) ==
    [algoritm |-> algoritm, digest_of |-> content,
     hexlen |-> IF algoritm = "md5" THEN 32 ELSE 64]

\* the descriptors update_fileinfo() computes a checksum for: every one
to_hash(files) == 1..Len(files)

\* the first descriptor of update_fileinfo()'s loop whose file open() does
\* not find (0: none)
first_unreadable(files, d) ==
    LET bad == {i \in to_hash(files) : ~exists(d, files[i].filename)}
    IN  IF bad = {} THEN 0 ELSE CHOOSE i \in bad : \A j \in bad : i <= j

\* file["checksum"] = ... for the descriptors of to_hash up to index last
with_checksums(files, d, algoritm, last) ==
    [i \in 1..Len(files) |->
        IF i \in to_hash(files) /\ i <= last
        THEN [url |-> files[i].url, filename |-> files[i].filename,
              checksum |-> checksum(algoritm, d[files[i].filename])]
        ELSE files[i]]

\* new_file: the descriptor without the IGNORE_KEYS
new_file(file) == [k \in DOMAIN file \ {"url", "id"} |-> file[k]]

\* the list update_fileinfo() returns
updated_fileinfo(files) == [i \in 1..Len(files) |-> new_file(files[i])]

\* main(): "update fileinfo": hash is set from the flag the user gave (one
\* of --md5/--sha256 is required); compute_hash's open() raising
\* FileNotFoundError is caught nowhere
UpdateFileinfo ==
    /\ pc = "update"
    /\ \E algoritm \in Algorithms :
          /\ hash' = algoritm
          /\ LET bad == first_unreadable(fileinfo, disk)
             IN  IF bad # 0
                 THEN /\ hashed' = {i \in to_hash(fileinfo) : i <= bad}
                      /\ fileinfo' = with_checksums(fileinfo, disk, algoritm,
                                                    bad - 1)
                      /\ Crash("hash")
                 ELSE /\ hashed' = to_hash(fileinfo)
                      /\ fileinfo' = with_checksums(fileinfo, disk, algoritm,
                                                    Len(fileinfo))
                      /\ pc' = "save"
                      /\ failure' = failure
    /\ UNCHANGED <<doc, environ, disk, run, prevRun, disk0, args, subStatus,
                   idx, out, steps, info>>

-----------------------------------------------------------------------------
(* generate_submission_info(), save_submission_info(), the summary *)

ADDITIONAL_FIELDS == { <<"n", "a", "v", "n">>, <<"e", "m", "a", "i", "l">>,
                       <<"t", "e", "l", "e", "f", "o", "n">> }

\* out[k] = v
set_item(o, k, v) == [x \in DOMAIN o \cup {k} |-> IF x = k THEN v ELSE o[x]]

\* the loop of generate_submission_info() over the first n items of
\* submission["data"]: the dict of the fields it keeps
RECURSIVE projected_fields(_, _, _)
projected_fields(data, prefix, n) ==
    IF n = 0 THEN <<>>
    ELSE LET o == projected_fields(data, prefix, n - 1)
             k == data[n].k
             v == data[n].v
         IN  IF v = "" THEN o
             ELSE IF startswith(k, prefix) THEN set_item(o, slice_from(k, 4), v)
             ELSE IF k \in ADDITIONAL_FIELDS THEN set_item(o, k, v)
             ELSE o

\* generate_submission_info(): the kept fields (prefix is the lower-cased
\* ARCHIVE_PREFIX) and out["files"] = files
generate_submission_info(submission, files) ==
    [fields |-> projected_fields(submission.data, lower(environ),
                                 Len(submission.data)),
     files |-> files]

\* filepath that names submission.json whatever the format
filepath_always_json(format) == submission_json

\* Path(out_dir, f"submission.{format}")
filepath(format) == IF format = "json" THEN submission_json ELSE submission_xml

\* save_skips without any test: the artifact is always written
save_skips_never(format, d) == FALSE

\* save_skips without generate_arkibas_csvs()'s test of indhold.csv
save_skips_journal_only(format, d) ==
    IF format = "arkibas"
    THEN exists(d, journal_csv)
    ELSE exists(d, filepath(format))

\* save_submission_info() / generate_arkibas_csvs() return without writing
save_skips(format, d) ==
    IF format = "arkibas"
    THEN exists(d, journal_csv) \/ exists(d, indhold_csv)
    ELSE exists(d, filepath(format))

SaveResults == {"ok", "open_fail", "write_fail"}

\* what one open(path, "w") ... of the serializer leaves of a file
saved(d, name, content, partial, w) ==
    IF w = "open_fail" THEN d
    ELSE [d EXCEPT ![name] = IF w = "ok" THEN content ELSE partial]

\* main(): "put together new submission-data", "save submission data to
\* file", then the summary is printed
Save ==
    /\ pc = "save"
    /\ LET submission ==
               generate_submission_info(doc, updated_fileinfo(fileinfo))
       IN  /\ info' = submission
           /\ IF save_skips(args.format, disk)
              THEN /\ disk' = disk
                   /\ pc' = "done"
                   /\ failure' = failure
              ELSE IF args.format = "arkibas"
              THEN \E wj \in SaveResults :
                      LET dj == saved(disk, journal_csv, Journal(submission, TRUE),
                                      Journal(submission, FALSE), wj)
                      IN  IF wj # "ok"
                          THEN disk' = dj /\ Crash("save")
                          ELSE \E wi \in SaveResults :
                                  /\ disk' = saved(dj, indhold_csv,
                                                   Indhold(submission, TRUE),
                                                   Indhold(submission, FALSE), wi)
                                  /\ IF wi # "ok" THEN Crash("save")
                                     ELSE pc' = "done" /\ failure' = failure
              ELSE \E w \in SaveResults :
                      /\ disk' = saved(disk, filepath(args.format),
                                       Meta(args.format, submission, TRUE),
                                       Meta(args.format, submission, FALSE), w)
                      /\ IF w # "ok" THEN Crash("save")
                         ELSE pc' = "done" /\ failure' = failure
    /\ UNCHANGED <<doc, environ, run, prevRun, disk0, args, hash, subStatus,
                   fileinfo, idx, out, steps, hashed>>

-----------------------------------------------------------------------------

Next ==
    \/ StartRun
    \/ GetSubmission
    \/ Extract
    \/ DownloadStep
    \/ UpdateFileinfo
    \/ Save

Spec == Init /\ [][Next]_vars

-----------------------------------------------------------------------------
(* generate_submission_info() on its own: applied once to a submission     *)
(* whose form fields and configured prefix are any of the inputs           *)

InitProjection ==
    /\ doc \in {[present |-> TRUE, urls |-> <<>>, data |-> d] : d \in DataInputs}
    /\ environ \in PrefixInputs
    /\ info = NoInfo
    /\ disk = [n \in FileNames |-> NoFile]
    /\ run = 0
    /\ prevRun = NoRun
    /\ disk0 = disk
    /\ pc = "project"
    /\ args = NoArgs
    /\ hash = ""
    /\ subStatus = 0
    /\ fileinfo = <<>>
    /\ idx = 0
    /\ out = EmptyBuckets
    /\ steps = <<>>
    /\ hashed = {}
    /\ failure = ""

\* submission_info = generate_submission_info(submission, fileinfo)
Project ==
    /\ pc = "project"
    /\ info' = generate_submission_info(doc, fileinfo)
    /\ pc' = "projected"
    /\ UNCHANGED <<doc, environ, disk, run, prevRun, disk0, args, hash,
                   subStatus, fileinfo, idx, out, steps, hashed, failure>>

NextProjection == Project

SpecProjection == InitProjection /\ [][NextProjection]_vars

-----------------------------------------------------------------------------
(* Type invariant *)

TypeOK ==
    /\ doc \in Documents
    /\ environ \in PrefixInputs
    /\ run \in 0..MaxRuns
    /\ pc \in {"idle", "fetch", "extract", "download", "update",
               "save", "done", "failed", "crashed"}
    /\ args \in ArgInputs \cup {NoArgs}
    /\ hash \in Algorithms \cup {""}
    /\ subStatus \in StatusCodes \cup {0}
    /\ idx \in 0..(MaxFiles + 1)
    /\ Len(steps) <= Len(fileinfo)
    /\ hashed \subseteq 1..Len(fileinfo)

-----------------------------------------------------------------------------
(* What a run has done so far *)

\* the descriptors an attachment GET was issued for in the current run
Gets == {k \in 1..Len(steps) : steps[k].status # 0}

\* the files the current run created or changed
WrittenThisRun == {n \in FileNames : disk[n] # disk0[n]}

\* the file names in a bucket
InBucket(bucket) == {bucket[i] : i \in 1..Len(bucket)}

\* the descriptor's outcome is ok (downloaded) or existing
Materialized(k) == steps[k].tags \in {{"existing"}, {"downloaded"}}

\* the artifact files of a format
ArtifactsOf(format) ==
    IF format = "arkibas" THEN {journal_csv, indhold_csv}
    ELSE IF format = "json" THEN {submission_json}
    ELSE {submission_xml}

\* the current run repeats a run that completed with every attachment GET
\* answered 200: valid uuid and destination, the same format
RepeatsCompletedRun ==
    /\ prevRun.completed
    /\ prevRun.all200
    /\ args.uuid \in ParsedUuids
    /\ is_dir(args.destination)
    /\ args.format = prevRun.format

-----------------------------------------------------------------------------
(* C1: when a run repeats a completed run whose attachment GETs were all   *)
(* answered 200, every descriptor it processes is reported existing, it     *)
(* issues no attachment GET, every file of the UUID subdirectory keeps the  *)
(* content the first run left, and once the submission GET is answered 200  *)
(* again the run cannot end otherwise than completed.                       *)
C1_RerunIsIdempotent ==
    RepeatsCompletedRun =>
        /\ \A k \in 1..Len(steps) :
              steps[k].tags = {"existing"} /\ steps[k].status = 0
        /\ Gets = {}
        /\ disk = disk0
        /\ (Terminated /\ subStatus = 200) =>
              pc = "done" /\ Len(steps) = Len(fileinfo)

\* a second run over two differently named attachments has completed
C1_Witness ==
    /\ RepeatsCompletedRun
    /\ pc = "done"
    /\ Len(steps) = 2
    /\ fileinfo[1].filename # fileinfo[2].filename
    /\ exists(disk, submission_xml)

-----------------------------------------------------------------------------
(* C2: when exactly one attachment GET was answered 404 and every other     *)
(* attachment was answered 200 (and written), the run does not terminate    *)
(* as failed or with a traceback, the 404 file is in the missing bucket,    *)
(* and a completed run has its metadata artifact, in which that file        *)
(* carries no checksum.                                                     *)
C2_OneMissingRunCompletes ==
    LET missing == {k \in 1..Len(steps) : steps[k].status = 404}
    IN  ( /\ pc # "download"
          /\ Len(steps) = Len(fileinfo)
          /\ Len(steps) >= 2
          /\ Cardinality(missing) = 1
          /\ \A k \in 1..Len(steps) \ missing :
                steps[k].status = 200 /\ steps[k].write = "ok" )
        => /\ pc \notin {"failed", "crashed"}
           /\ \A k \in missing :
                 /\ fileinfo[k].filename \in InBucket(out.missing)
                 /\ pc = "done" => "checksum" \notin DOMAIN fileinfo[k]
           /\ pc = "done" =>
                 \A a \in ArtifactsOf(args.format) : exists(disk, a)

-----------------------------------------------------------------------------
(* C3: compute_hash is called only for descriptors whose outcome is ok or   *)
(* existing, and in the finalized list a descriptor has a checksum key if   *)
(* and only if its outcome is ok or existing.                               *)
C3_ChecksumIffMaterialized ==
    /\ \A k \in hashed : Materialized(k)
    /\ pc \in {"save", "done"} =>
          \A k \in 1..Len(fileinfo) :
             ("checksum" \in DOMAIN fileinfo[k]) <=> Materialized(k)

-----------------------------------------------------------------------------
(* C4 as claimed: an attachment GET answered 5xx gives the descriptor the   *)
(* outcome error and does not end the run.                                  *)
C4_ServerErrorIsRecoverable ==
    \A k \in 1..Len(steps) :
       steps[k].status \div 100 = 5 =>
          /\ steps[k].tags = {"errors"}
          /\ ~(pc = "failed" /\ failure = "server")

(* C4 as amended: an attachment GET answered 5xx ends the run at that       *)
(* descriptor: the descriptor is put in no bucket, no later descriptor is   *)
(* processed, no checksum is computed, no metadata artifact is written by   *)
(* that run, and the run terminates as failed.                              *)
C4_ServerErrorEndsRun ==
    \A k \in 1..Len(steps) :
       steps[k].status \div 100 = 5 =>
          /\ k = Len(steps)
          /\ steps[k].tags = {}
          /\ fileinfo[k].filename \notin WrittenThisRun
          /\ pc = "failed" /\ failure = "server"
          /\ hashed = {}
          /\ WrittenThisRun \cap ArtifactNames = {}

\* the first of two attachments was answered 503
C4_Witness ==
    /\ pc = "failed"
    /\ failure = "server"
    /\ Len(fileinfo) = 2
    /\ Len(steps) = 1
    /\ steps[1].status = 503

-----------------------------------------------------------------------------
(* C5: an attachment GET answered 401 or 403 ends the run: it is the last   *)
(* iteration of the loop (no GET for a later descriptor), no checksum is    *)
(* computed, the run terminates as failed and has written no metadata       *)
(* artifact.                                                                *)
C5_AccessDeniedEndsRun ==
    \A k \in 1..Len(steps) :
       steps[k].status \in {401, 403} =>
          /\ k = Len(steps)
          /\ \A j \in Gets : j <= k
          /\ pc = "failed" /\ failure = "denied"
          /\ hashed = {}
          /\ WrittenThisRun \cap ArtifactNames = {}

\* the first of two attachments was answered 403
C5_Witness ==
    /\ pc = "failed"
    /\ Len(fileinfo) = 2
    /\ Len(steps) = 1
    /\ steps[1].status = 403

-----------------------------------------------------------------------------
(* C6: when the submission GET is answered with any status but 200, the run *)
(* is terminated as failed, has issued no attachment GET, has extracted no  *)
(* file list and has written no file at all.                                *)
C6_SubmissionFailureWritesNothing ==
    subStatus \notin {0, 200} =>
        /\ pc = "failed"
        /\ failure \in {"not_found", "access_denied", "remote_error"}
        /\ steps = <<>>
        /\ fileinfo = <<>>
        /\ hashed = {}
        /\ disk = disk0

\* the submission GET was answered 302, a status with no branch of its own
C6_Witness ==
    /\ subStatus = 302
    /\ pc = "failed"
    /\ failure = "remote_error"

-----------------------------------------------------------------------------
(* C7: a run whose uuid does not parse or whose destination is no existing  *)
(* directory is terminated as failed without any request (submission GET    *)
(* or attachment GET) and without touching the disk.                        *)
C7_InvalidInputNoRequest ==
    (run >= 1 /\ (args.uuid \notin ParsedUuids \/ ~is_dir(args.destination))) =>
        /\ pc = "failed"
        /\ failure \in {"uuid", "destination"}
        /\ subStatus = 0
        /\ steps = <<>>
        /\ disk = disk0

\* a run was given a regular file as its destination
C7_Witness ==
    /\ run >= 1
    /\ args.destination = "regular_file"
    /\ UUID_parses(args.uuid)
    /\ pc = "failed"

-----------------------------------------------------------------------------
(* C8: an iteration issues an attachment GET if and only if no file of the  *)
(* derived name was there when it began, and otherwise reports existing;    *)
(* with two descriptors, the first on disk and the second new and answered  *)
(* 200 and written, the outcomes are existing and ok, one GET was issued    *)
(* and both descriptors get a checksum.                                     *)
C8_GetIffAbsent ==
    /\ \A k \in 1..Len(steps) :
          /\ steps[k].status # 0 <=> ~steps[k].present
          /\ steps[k].present => steps[k].tags = {"existing"}
    /\ ( /\ Len(fileinfo) = 2
         /\ Len(steps) = 2
         /\ pc \notin {"download", "update"}
         /\ steps[1].present
         /\ ~steps[2].present
         /\ steps[2].status = 200
         /\ steps[2].write = "ok" )
       => /\ steps[1].tags = {"existing"}
          /\ steps[2].tags = {"downloaded"}
          /\ Cardinality(Gets) = 1
          /\ pc \in {"save", "done", "crashed"}
          /\ \A k \in 1..2 : "checksum" \in DOMAIN fileinfo[k]

\* the scenario: one file on disk, one new, the run completed
C8_Witness ==
    /\ pc = "done"
    /\ Len(steps) = 2
    /\ steps[1].present
    /\ steps[2].status = 200
    /\ steps[2].tags = {"downloaded"}
    /\ fileinfo[1].filename # fileinfo[2].filename

-----------------------------------------------------------------------------
(* C9: no step of any run changes the content of a file that exists in the  *)
(* UUID subdirectory.                                                       *)
C9_NeverOverwritten ==
    [][\A n \in FileNames : exists(disk, n) => disk'[n] = disk[n]]_vars

\* two descriptors derive the same filename: the first was downloaded, the
\* second found it
C9_Witness ==
    /\ Len(steps) = 2
    /\ fileinfo[1].filename = fileinfo[2].filename
    /\ fileinfo[1].url # fileinfo[2].url
    /\ steps[1].tags = {"downloaded"}
    /\ steps[2].tags = {"existing"}

-----------------------------------------------------------------------------
(* C10: when an artifact file of the requested format exists (for arkibas:  *)
(* journal.csv or indhold.csv), the serializer writes nothing: the whole    *)
(* UUID subdirectory is left as it is.                                      *)
C10_ExistingArtifactSkipsWrite ==
    [][(pc = "save" /\ \E a \in ArtifactsOf(args.format) : exists(disk, a))
          => disk' = disk]_vars

\* an arkibas run completed with indhold.csv there and no journal.csv
C10_Witness ==
    /\ pc = "done"
    /\ args.format = "arkibas"
    /\ exists(disk, indhold_csv)
    /\ ~exists(disk, journal_csv)

-----------------------------------------------------------------------------
\* the formats whose artifact files are all in the UUID subdirectory
ArtifactsPresent ==
    {f \in Formats : \A a \in ArtifactsOf(f) : exists(disk, a)}

\* every run started so far has completed (for the first two runs)
AllRunsCompleted ==
    /\ pc = "done"
    /\ run = 1 \/ (run = 2 /\ prevRun.completed)

(* C11 as claimed: after one or two completed runs the UUID subdirectory    *)
(* holds exactly one metadata artifact: the files of exactly one format     *)
(* are all there, and no file with an artifact name of another format is.   *)
C11_ExactlyOneArtifact ==
    AllRunsCompleted =>
        /\ Cardinality(ArtifactsPresent) = 1
        /\ \A n \in ArtifactNames :
              exists(disk, n) => \E f \in ArtifactsPresent : n \in ArtifactsOf(f)

(* C11 as amended: every file a serializer writes in a run has an artifact  *)
(* name of that run's format; a completed run leaves a file with an         *)
(* artifact name of its format in the UUID subdirectory, and so did the     *)
(* completed run before it: the artifacts of different formats accumulate.  *)
C11_OneArtifactPerFormatUsed ==
    /\ \A n \in WrittenThisRun :
          disk[n].kind # "body" => n \in ArtifactsOf(args.format)
    /\ pc = "done" =>
          /\ \E a \in ArtifactsOf(args.format) : exists(disk, a)
          /\ prevRun.completed =>
                \E a \in ArtifactsOf(prevRun.format) : exists(disk, a)

\* a completed json run was followed by a completed xml run: both
\* submission.json and submission.xml are there
C11_Witness ==
    /\ pc = "done"
    /\ run = 2
    /\ prevRun.completed
    /\ prevRun.format = "json"
    /\ args.format = "xml"
    /\ disk[submission_json].kind = "meta"
    /\ disk[submission_xml].kind = "meta"
    /\ submission_xml \in WrittenThisRun

-----------------------------------------------------------------------------
(* C12: when data.linked.files is absent or empty, a run that has got the   *)
(* submission and gone through the extraction is terminated as failed by    *)
(* the extraction, has issued no attachment GET, has computed no checksum   *)
(* and has written no metadata artifact.                                    *)
C12_NoAttachmentsIsFatal ==
    ( /\ subStatus = 200
      /\ pc # "extract"
      /\ ~doc.present \/ Len(doc.urls) = 0 )
    => /\ pc = "failed"
       /\ failure = "no_files"
       /\ steps = <<>>
       /\ hashed = {}
       /\ WrittenThisRun \cap ArtifactNames = {}

-----------------------------------------------------------------------------
\* the name the projection rule gives a raw field under the configured
\* prefix p: the name without the prefix when it starts with the prefix
\* compared case-insensitively, the name itself when it is in the
\* allow-list; <<>> stands for a field that is dropped
RuleName(k, p) ==
    IF startswith(lower(k), lower(p)) THEN slice_from(k, Len(p))
    ELSE IF k \in ADDITIONAL_FIELDS THEN k
    ELSE <<>>

\* the raw fields with a non-falsy value
Truthy(data) == {i \in 1..Len(data) : data[i].v # ""}

(* C13: the projection of a submission whose kept fields get different      *)
(* names has, for every raw field with a non-falsy value, the field's       *)
(* value under the name without the configured prefix when the name starts  *)
(* with the prefix compared case-insensitively, else under the name itself  *)
(* when it is in the allow-list, and has no other field.                    *)
C13_FieldProjection ==
    LET data == doc.data
        kept == {i \in Truthy(data) : RuleName(data[i].k, environ) # <<>>}
    IN  ( /\ pc = "projected"
          /\ \A i, j \in kept :
                RuleName(data[i].k, environ) = RuleName(data[j].k, environ)
                   => i = j )
        => /\ \A i \in kept :
                 /\ RuleName(data[i].k, environ) \in DOMAIN info.fields
                 /\ info.fields[RuleName(data[i].k, environ)] = data[i].v
           /\ DOMAIN info.fields = {RuleName(data[i].k, environ) : i \in kept}

-----------------------------------------------------------------------------
\* download_files() has returned its buckets to main()
DownloaderReturned == pc \in {"update", "save", "done", "crashed"}

(* C14: when download_files() has returned, every descriptor has an         *)
(* iteration, each iteration appended the filename to exactly one of the    *)
(* four buckets, and the buckets together hold one entry per descriptor.    *)
C14_ExactlyOneOutcome ==
    DownloaderReturned =>
        /\ Len(steps) = Len(fileinfo)
        /\ \A k \in 1..Len(steps) : Cardinality(steps[k].tags) = 1
        /\ Len(out.errors) + Len(out.downloaded) + Len(out.existing)
              + Len(out.missing) = Len(fileinfo)

-----------------------------------------------------------------------------
\* the k-th iteration of the loop handled the k-th entry of the file map,
\* the loop is at the entry after the last one handled, and a completely
\* written indhold.csv has one row per entry of the map, in the map's order
InMapOrder ==
    /\ Len(steps) <= Len(doc.urls)
    /\ \A k \in 1..Len(steps) : steps[k].url = doc.urls[k]
    /\ pc = "download" => idx = Len(steps) + 1
    /\ (disk[indhold_csv].kind = "indhold" /\ disk[indhold_csv].complete) =>
          /\ Len(disk[indhold_csv].rows) = Len(doc.urls)
          /\ \A i \in 1..Len(doc.urls) :
                disk[indhold_csv].rows[i].Filnavn = unquote(PathName(doc.urls[i]))

(* C15: every step of a run handles at most one more descriptor and issues  *)
(* at most one more attachment GET, the descriptors are handled in the      *)
(* order of the source file map (so the GETs are a subsequence of it), and  *)
(* the rows of indhold.csv are in that order, one per file.                 *)
C15_OneAtATimeInMapOrder ==
    [][ /\ Len(steps') <= Len(steps) + 1
        /\ Cardinality(Gets') <= Cardinality(Gets) + 1
        /\ InMapOrder' ]_vars

\* an arkibas run over two differently named attachments requested both
\* and wrote indhold.csv
C15_Witness ==
    /\ pc = "done"
    /\ args.format = "arkibas"
    /\ Len(steps) = 2
    /\ steps[1].status = 200 /\ steps[2].status = 200
    /\ fileinfo[1].filename # fileinfo[2].filename
    /\ disk[indhold_csv].kind = "indhold"
    /\ disk[indhold_csv].complete
    /\ indhold_csv \in WrittenThisRun

-----------------------------------------------------------------------------
(* C16: an iteration opens the destination file, or puts its descriptor in  *)
(* the downloaded bucket, only when its GET was answered 200; an iteration  *)
(* whose GET was answered otherwise creates no file, and no file of the     *)
(* UUID subdirectory holds the body of an answer other than 200.            *)
C16_WrittenOnlyOn200 ==
    /\ \A k \in 1..Len(steps) :
          /\ (steps[k].write # "none" \/ "downloaded" \in steps[k].tags)
                => steps[k].status = 200
          /\ steps[k].status \notin {0, 200}
                => fileinfo[k].filename \notin WrittenThisRun
    /\ \A n \in FileNames : disk[n].kind = "body" => disk[n].status = 200

-----------------------------------------------------------------------------
(* C17: an iteration that put its descriptor in the errors bucket leaves no *)
(* file of that name in the UUID subdirectory, and a file an iteration      *)
(* reports existing is a body that a download wrote completely (the UUID    *)
(* subdirectory was empty before the first run).                            *)
C17_FailedWriteLeavesNoFile ==
    \A k \in 1..Len(steps) :
       /\ "errors" \in steps[k].tags => ~exists(disk, fileinfo[k].filename)
       /\ steps[k].tags = {"existing"} =>
             /\ disk[fileinfo[k].filename].kind = "body"
             /\ disk[fileinfo[k].filename].complete

====
